---- MODULE Spec2Model ----
(***************************************************************************)
(* Chunked long-form synthesis pipeline of the voice-clone backend:        *)
(*   - the sentence chunkers (api/routes/tts.py, story_narrator/narrator)  *)
(*   - the job tracker and the background job run_tts_job                  *)
(*   - the RunPod synthesis client with its status-poll loop               *)
(*   - AudioSynthesizer.synthesize_chunks (story_narrator/audio_synthesizer)*)
(*   - the default flag of the voice profiles (database/voice_service.py)  *)
(* Text is modelled as a sequence of one-character strings.                *)
(***************************************************************************)
EXTENDS Integers, Sequences, FiniteSets, TLC

VARIABLES
    \* ---- chunker harness
    text,        \* the input text of the chunker call
    max_chars,   \* the limit passed to the chunker
    chunks,      \* the list the chunker returned
    cpc,         \* "input" before the call, then the name of the chunker that ran
    \* ---- job tracker and background jobs (api/routes/tts.py)
    tasks,       \* the in-memory task store: a function from the stored job ids to entries
    jpc,         \* position of each job's background task in run_tts_job
    jtext,       \* request.text handed to run_tts_job
    jchunks,     \* run_tts_job's local list chunks
    ji,          \* number of chunks run_tts_job has finished (the loop's i)
    segs,        \* run_tts_job's local list audio_segments
    exc,         \* message of the exception run_tts_job caught
    sent,        \* chunk indices for which a synthesis request was sent, per job
    files,       \* job ids whose output file exists in OUTPUT_DIR
    usage_count, \* usage_count column of the voice profile
    response,    \* the last HTTP response the API returned
    \* ---- one synthesize call of the RunPod client (story_narrator/runpod_client.py)
    rpc,         \* position in synthesize_with_reference_audio
    result,      \* the local result: the last JSON body received
    posts,       \* POST /runsync requests sent
    polls,       \* GET /status/{job_id} requests sent
    cret,        \* how the call ended: "bytes", or the message of the exception
    \* ---- one call of AudioSynthesizer.synthesize_chunks (story_narrator/audio_synthesizer)
    text_chunks,    \* the argument text_chunks
    apc,            \* position in synthesize_chunks
    idx,            \* number of chunks the loop has gone through
    requests,       \* the requests sent to the client: chunk index and cleaned text
    audio_segments, \* the local list audio_segments
    aret,           \* how the call ended: "full_audio", or the message of the exception
    \* ---- the table voice_profiles and the calls that write it (database/voice_service.py)
    USE_POSTGRES,   \* database/connection.py: whether DATABASE_URL is set
    voice_profiles, \* the rows of one user: voice_id and is_default
    calls           \* per caller: the running call, its arguments and its position

chunkVars == <<text, max_chars, chunks, cpc>>

synthVars == <<text_chunks, apc, idx, requests, audio_segments, aret>>

jobVars == <<tasks, jpc, jtext, jchunks, ji, segs, exc, sent, files, usage_count, response>>

clientVars == <<rpc, result, posts, polls, cret>>

voiceVars == <<USE_POSTGRES, voice_profiles, calls>>

vars == <<chunkVars, synthVars, jobVars, clientVars, voiceVars>>

\* ------------------------------------------------------------------ bounds
MaxLen == 7          \* longest input text of the chunker harness, in characters
MaxChars == 3        \* largest chunk limit tried by the chunker harness
MaxJobs == 1         \* number of synthesis requests accepted
MaxWorkers == 2      \* background tasks that may run at the same time
MaxJobChunks == 2    \* most chunks a job's text splits into
MaxSynthChunks == 2  \* longest list text_chunks handed to synthesize_chunks
MaxVoices == 2       \* voice profiles one user may come to hold
MaxCallers == 2      \* calls on the table that may run at the same time
MaxTotal == 12       \* largest number of chunks the progress formula is evaluated for
SentenceLen == 130   \* length of a long sentence of a job's text

\* ------------------------------------------------------------------ text
Chars == {"a", ".", " "}

IsSpace(c) == c = " "

IsTerminal(c) == c \in {".", "!", "?"}

\* str.strip(): the text between its first and its last non-whitespace character
Strip(s) ==
    LET kept == {i \in 1..Len(s) : ~IsSpace(s[i])}
    IN  IF kept = {} THEN <<>>
        ELSE SubSeq(s, CHOOSE i \in kept : \A k \in kept : i <= k,
                       CHOOSE i \in kept : \A k \in kept : k <= i)

\* end of the whitespace run that starts at index i: the first index >= i that
\* holds no whitespace (Len(t) + 1 when the run reaches the end)
SkipSpaces(t, i) ==
    CHOOSE j \in i..(Len(t) + 1) :
        /\ j = Len(t) + 1 \/ ~IsSpace(t[j])
        /\ \A k \in i..(j - 1) : IsSpace(t[k])

\* the places where (?<=[.!?])\s+ matches: a whitespace character that follows
\* a terminal mark; the match runs to the end of the whitespace run
MatchStarts(t) == {i \in 2..Len(t) : IsTerminal(t[i - 1]) /\ IsSpace(t[i])}

\* the n-th smallest element of a set of integers
Nth(S, n) == CHOOSE i \in S : Cardinality({x \in S : x < i}) = n - 1

\* re.split(r"(?<=[.!?])\s+", t): the pieces between the matches, in order
ReSplit(t) ==
    LET M == MatchStarts(t)
        n == Cardinality(M)
    IN  [k \in 1..(n + 1) |->
            SubSeq(t, IF k = 1 THEN 1 ELSE SkipSpaces(t, Nth(M, k - 1)),
                      IF k = n + 1 THEN Len(t) ELSE Nth(M, k) - 1)]

\* [s.strip() for s in pieces if s.strip()]
RECURSIVE StripNonEmpty(_)
StripNonEmpty(pieces) ==
    IF pieces = <<>> THEN <<>>
    ELSE LET s == Strip(Head(pieces))
         IN  IF s # <<>> THEN <<s>> \o StripNonEmpty(Tail(pieces))
             ELSE StripNonEmpty(Tail(pieces))

split_into_sentences(t) == StripNonEmpty(ReSplit(Strip(t)))

\* ------------------------------------------------------------------ create_chunks
\* the loop of create_chunks over the remaining sentences, followed by the
\* trailing "if current: chunks.append(current)"
RECURSIVE CreateLoop(_, _, _, _)
\* create_chunks with a sentence that opens a new chunk cut to the limit
CreateLoopTruncating(sentences, acc, current, limit) ==
    IF sentences = <<>>
    THEN IF current # <<>> THEN Append(acc, current) ELSE acc
    ELSE LET s == Head(sentences)
         IN  IF Len(current) + Len(s) > limit
             THEN CreateLoop(Tail(sentences), Append(acc, current),
                             SubSeq(s, 1, limit), limit)
             ELSE CreateLoop(Tail(sentences), acc,
                             IF current # <<>> THEN current \o <<" ">> \o s ELSE s,
                             limit)

\* create_chunks appending current at the end without testing it
CreateLoopAppendingLast(sentences, acc, current, limit) ==
    IF sentences = <<>>
    THEN Append(acc, current)
    ELSE LET s == Head(sentences)
         IN  IF Len(current) + Len(s) > limit
             THEN CreateLoop(Tail(sentences), Append(acc, current), s, limit)
             ELSE CreateLoop(Tail(sentences), acc,
                             IF current # <<>> THEN current \o <<" ">> \o s ELSE s,
                             limit)

CreateLoop(sentences, acc, current, limit) ==
    IF sentences = <<>>
    THEN IF current # <<>> THEN Append(acc, current) ELSE acc
    ELSE LET s == Head(sentences)
         IN  IF Len(current) + Len(s) > limit
             THEN CreateLoop(Tail(sentences), Append(acc, current), s, limit)
             ELSE CreateLoop(Tail(sentences), acc,
                             IF current # <<>> THEN current \o <<" ">> \o s ELSE s,
                             limit)

create_chunks(t, limit) == CreateLoop(split_into_sentences(t), <<>>, <<>>, limit)

\* ------------------------------------------------------------------ split_into_safe_chunks
RECURSIVE SafeLoop(_, _, _, _)
SafeLoop(pieces, acc, current, limit) ==
    IF pieces = <<>>
    THEN IF current # <<>> THEN Append(acc, current) ELSE acc
    ELSE LET s == Strip(Head(pieces))
         IN  IF s = <<>> THEN SafeLoop(Tail(pieces), acc, current, limit)
             ELSE IF Len(current) + Len(s) <= limit
                  THEN SafeLoop(Tail(pieces), acc,
                                Strip(current \o <<" ">> \o s), limit)
                  ELSE SafeLoop(Tail(pieces), Append(acc, current), s, limit)

split_into_safe_chunks(t, limit) == SafeLoop(ReSplit(t), <<>>, <<>>, limit)

\* ------------------------------------------------------------------ job tracker
SAMPLE_RATE == 24000

DefaultMaxChars == 240

\* the ids a stored job may have
JobIds == 1..MaxWorkers

\* a key the entry's dict does not hold
Absent == "absent"

NoExc == "no_exception"

NoResponse == [kind |-> "none"]

\* ---- inputs of the API
\* a sentence of n characters: n - 1 letters and a full stop
Sentence(n) == [k \in 1..n |-> IF k = n THEN "." ELSE "a"]

\* a text of k long sentences separated by one space
RECURSIVE LongText(_)
LongText(k) ==
    IF k = 0 THEN <<>>
    ELSE IF k = 1 THEN Sentence(SentenceLen)
    ELSE LongText(k - 1) \o <<" ">> \o Sentence(SentenceLen)

ShortText == <<"A", ".">>

\* a text of whitespace only
BlankText == <<" ", " ">>

JobTexts == {LongText(k) : k \in 0..MaxJobChunks} \cup {ShortText, BlankText}

\* voice_profiles: voice id -> owning user id
VoiceOwner == [v \in {"v1"} |-> 2]

RequestVoices == {"v1", "unknown"}

\* 0 stands for an unauthenticated request (user is None)
RequestUsers == {0, 2, 3}

\* sample rates of the audio the remote service may return
RemoteSampleRates == {SAMPLE_RATE, 16000}

\* messages of the exceptions synthesize_with_reference_audio raises
ClientErrors ==
    { "transport error",
      "RunPod response missing job id",
      "RunPod job not completed",
      "Invalid RunPod output" }

\* ---- helpers
\* silence(seconds) for seconds = hundredths / 100
silence(hundredths) ==
    [kind |-> "silence", samples |-> (hundredths * SAMPLE_RATE) \div 100]

\* the progress rounded up instead of truncated
ChunkProgressRoundedUp(i, total) == 5 + (85 * i + total - 1) \div total

\* the chunk share of the progress scaled to 100 instead of 85
ChunkProgressScaledTo100(i, total) == 5 + (100 * i) \div total

\* int(5 + (85 * i / total))
ChunkProgress(i, total) == 5 + (85 * i) \div total

\* the write going to a dict shared by all jobs instead of the job's own entry
SetFieldOfEveryEntry(j, field, value) ==
    [k \in DOMAIN tasks |-> [tasks[k] EXCEPT ![field] = value]]

SetField(j, field, value) == [tasks EXCEPT ![j][field] = value]

\* control leaves the try block with exception message m
Raise(j, m) ==
    /\ exc' = [exc EXCEPT ![j] = m]
    /\ jpc' = [jpc EXCEPT ![j] = "except"]

Goto(j, label) == jpc' = [jpc EXCEPT ![j] = label]

JobsIdle ==
    /\ tasks = <<>>
    /\ jpc = [j \in JobIds |-> "none"]
    /\ jtext = [j \in JobIds |-> <<>>]
    /\ jchunks = [j \in JobIds |-> <<>>]
    /\ ji = [j \in JobIds |-> 0]
    /\ segs = [j \in JobIds |-> <<>>]
    /\ exc = [j \in JobIds |-> NoExc]
    /\ sent = [j \in JobIds |-> <<>>]
    /\ files = {}
    /\ usage_count = 0
    /\ response = NoResponse

\* ---- POST /generate
\* generate_tts: voice missing -> 404
GenerateNotFound(voice_id) ==
    /\ voice_id \notin DOMAIN VoiceOwner
    /\ response' = [kind |-> "generate", code |-> 404]
    /\ UNCHANGED <<tasks, jpc, jtext, jchunks, ji, segs, exc, sent, files, usage_count>>
    /\ UNCHANGED <<voiceVars, chunkVars, synthVars, clientVars>>

\* the ownership check made after the job was stored
GenerateDeniedAfterInsert(voice_id, user_id) ==
    /\ voice_id \in DOMAIN VoiceOwner
    /\ user_id # 0
    /\ VoiceOwner[voice_id] \notin {user_id, 1}
    /\ \E j \in 1..MaxJobs :
        /\ j \notin DOMAIN tasks
        /\ \A k \in 1..MaxJobs : k < j => k \in DOMAIN tasks
        /\ tasks' = tasks @@ (j :> [status |-> "queued", progress |-> 0,
                                    audio_url |-> Absent, error |-> Absent])
    /\ response' = [kind |-> "generate", code |-> 403]
    /\ UNCHANGED <<jpc, jtext, jchunks, ji, segs, exc, sent, files, usage_count>>
    /\ UNCHANGED <<voiceVars, chunkVars, synthVars, clientVars>>

\* generate_tts: voice of another user -> 403
GenerateDenied(voice_id, user_id) ==
    /\ voice_id \in DOMAIN VoiceOwner
    /\ user_id # 0
    /\ VoiceOwner[voice_id] \notin {user_id, 1}
    /\ response' = [kind |-> "generate", code |-> 403]
    /\ UNCHANGED <<tasks, jpc, jtext, jchunks, ji, segs, exc, sent, files, usage_count>>
    /\ UNCHANGED <<voiceVars, chunkVars, synthVars, clientVars>>

\* generate_tts: the job is stored as queued under a fresh id taken from ids
\* and its background task scheduled
GenerateAcceptedAmong(voice_id, user_id, t, ids) ==
    /\ voice_id \in DOMAIN VoiceOwner
    /\ ~(user_id # 0 /\ VoiceOwner[voice_id] \notin {user_id, 1})
    /\ \E j \in ids :
        /\ j \notin DOMAIN tasks
        /\ \A k \in ids : k < j => k \in DOMAIN tasks
        /\ tasks' = tasks @@ (j :> [status |-> "queued", progress |-> 0,
                                    audio_url |-> Absent, error |-> Absent])
        /\ jpc' = [jpc EXCEPT ![j] = "start"]
        /\ jtext' = [jtext EXCEPT ![j] = t]
        /\ response' = [kind |-> "generate", code |-> 200, task_id |-> j]
    /\ UNCHANGED <<jchunks, ji, segs, exc, sent, files, usage_count>>
    /\ UNCHANGED <<voiceVars, chunkVars, synthVars, clientVars>>

\* generate_tts for one of the first MaxJobs requests accepted
GenerateAccepted(voice_id, user_id, t) ==
    GenerateAcceptedAmong(voice_id, user_id, t, 1..MaxJobs)

generate_tts ==
    \E voice_id \in RequestVoices :
        \/ GenerateNotFound(voice_id)
        \/ \E user_id \in RequestUsers :
            \/ GenerateDenied(voice_id, user_id)
            \/ \E t \in JobTexts : GenerateAccepted(voice_id, user_id, t)

\* ---- GET /status/{task_id}
get_tts_status ==
    \E j \in JobIds \cup {0} :
        /\ response' = IF j \in DOMAIN tasks
                       THEN [kind |-> "status", code |-> 200, body |-> tasks[j]]
                       ELSE [kind |-> "status", code |-> 404]
        /\ UNCHANGED <<tasks, jpc, jtext, jchunks, ji, segs, exc, sent, files, usage_count>>
    /\ UNCHANGED <<voiceVars, chunkVars, synthVars, clientVars>>

\* ---- run_tts_job, one step per write to the task store or remote call
\* tasks[task_id]["status"] = "processing"
SetProcessing(j) ==
    /\ jpc[j] = "start"
    /\ tasks' = SetField(j, "status", "processing")
    /\ Goto(j, "set_progress_5")
    /\ UNCHANGED <<jtext, jchunks, ji, segs, exc, sent, files, usage_count, response>>
    /\ UNCHANGED <<voiceVars, chunkVars, synthVars, clientVars>>

\* tasks[task_id]["progress"] = 5
SetProgress5(j) ==
    /\ jpc[j] = "set_progress_5"
    /\ tasks' = SetField(j, "progress", 5)
    /\ Goto(j, "prepare")
    /\ UNCHANGED <<jtext, jchunks, ji, segs, exc, sent, files, usage_count, response>>
    /\ UNCHANGED <<voiceVars, chunkVars, synthVars, clientVars>>

\* load_voice_bytes, create_chunks, RunPodTTSClient(), audio_segments = []
Prepare(j) ==
    /\ jpc[j] = "prepare"
    /\ \E outcome \in {"ok", "voice file unreadable", "RUNPOD_API_KEY not found"} :
        IF outcome = "ok"
        THEN /\ jchunks' = [jchunks EXCEPT ![j] = create_chunks(jtext[j], DefaultMaxChars)]
             /\ Goto(j, "loop")
             /\ UNCHANGED exc
        ELSE /\ Raise(j, outcome)
             /\ UNCHANGED jchunks
    /\ UNCHANGED <<tasks, jtext, ji, segs, sent, files, usage_count, response>>
    /\ UNCHANGED <<voiceVars, chunkVars, synthVars, clientVars>>

\* the next request sent without waiting for the call in flight
SynthCallPipelined(j) ==
    /\ jpc[j] \in {"loop", "synth"}
    /\ Len(sent[j]) < Len(jchunks[j])
    /\ sent' = [sent EXCEPT ![j] = Append(@, Len(@) + 1)]
    /\ Goto(j, "synth")
    /\ UNCHANGED <<tasks, jtext, jchunks, ji, segs, exc, files, usage_count, response>>
    /\ UNCHANGED <<voiceVars, chunkVars, synthVars, clientVars>>

\* for i, chunk in enumerate(chunks, 1): the request for the next chunk is sent
SynthCall(j) ==
    /\ jpc[j] = "loop"
    /\ ji[j] < Len(jchunks[j])
    /\ sent' = [sent EXCEPT ![j] = Append(@, ji[j] + 1)]
    /\ Goto(j, "synth")
    /\ UNCHANGED <<tasks, jtext, jchunks, ji, segs, exc, files, usage_count, response>>
    /\ UNCHANGED <<voiceVars, chunkVars, synthVars, clientVars>>

\* the client raised and the loop asks for the same chunk again
SynthRetry(j) ==
    /\ jpc[j] = "synth"
    /\ Goto(j, "loop")
    /\ UNCHANGED <<tasks, jtext, jchunks, ji, segs, exc, sent, files, usage_count, response>>
    /\ UNCHANGED <<voiceVars, chunkVars, synthVars, clientVars>>

\* the client raised an exception with message m: it leaves the loop
SynthRaised(j, m) ==
    /\ jpc[j] = "synth"
    /\ Raise(j, m)
    /\ UNCHANGED <<tasks, jtext, jchunks, ji, segs, sent, files, usage_count, response>>
    /\ UNCHANGED <<voiceVars, chunkVars, synthVars>>

\* the client raised: the exception leaves the loop
SynthRaise(j) ==
    /\ \E m \in ClientErrors : SynthRaised(j, m)
    /\ UNCHANGED clientVars

\* the two appends in the other order: the pause before the chunk's audio
SynthReturnedSilenceFirst(j) ==
    /\ jpc[j] = "synth"
    /\ \E sr \in RemoteSampleRates :
        IF sr # SAMPLE_RATE
        THEN /\ Raise(j, "Sample rate mismatch")
             /\ UNCHANGED segs
        ELSE /\ segs' = [segs EXCEPT ![j] =
                            @ \o <<silence(35),
                                   [kind |-> "audio", chunk |-> ji[j] + 1, rate |-> sr]>>]
             /\ Goto(j, "set_progress")
             /\ UNCHANGED exc
    /\ UNCHANGED <<tasks, jtext, jchunks, ji, sent, files, usage_count, response>>
    /\ UNCHANGED <<voiceVars, chunkVars, synthVars>>

\* decode_wav(audio_bytes) and the two appends, for bytes the client returned
SynthReturned(j) ==
    /\ jpc[j] = "synth"
    /\ \E sr \in RemoteSampleRates :
        IF sr # SAMPLE_RATE
        THEN /\ Raise(j, "Sample rate mismatch")
             /\ UNCHANGED segs
        ELSE /\ segs' = [segs EXCEPT ![j] =
                            @ \o <<[kind |-> "audio", chunk |-> ji[j] + 1, rate |-> sr],
                                   silence(35)>>]
             /\ Goto(j, "set_progress")
             /\ UNCHANGED exc
    /\ UNCHANGED <<tasks, jtext, jchunks, ji, sent, files, usage_count, response>>
    /\ UNCHANGED <<voiceVars, chunkVars, synthVars>>

\* the client returned bytes: decode_wav, then the two appends
SynthReturn(j) ==
    /\ SynthReturned(j)
    /\ UNCHANGED clientVars

\* tasks[task_id]["progress"] = int(5 + (85 * i / total))
SetChunkProgress(j) ==
    /\ jpc[j] = "set_progress"
    /\ tasks' = SetField(j, "progress", ChunkProgress(ji[j] + 1, Len(jchunks[j])))
    /\ ji' = [ji EXCEPT ![j] = @ + 1]
    /\ Goto(j, "loop")
    /\ UNCHANGED <<jtext, jchunks, segs, exc, sent, files, usage_count, response>>
    /\ UNCHANGED <<voiceVars, chunkVars, synthVars, clientVars>>

\* the concatenation accepting an empty list: an empty file is written
WriteOutputEmptyAllowed(j) ==
    /\ jpc[j] = "loop"
    /\ ji[j] = Len(jchunks[j])
    /\ \E outcome \in {"ok", "error opening output file"} :
            IF outcome = "ok"
            THEN /\ files' = files \cup {j}
                 /\ Goto(j, "increment_usage")
                 /\ UNCHANGED exc
            ELSE /\ Raise(j, outcome)
                 /\ UNCHANGED files
    /\ UNCHANGED <<tasks, jtext, jchunks, ji, segs, sent, usage_count, response>>
    /\ UNCHANGED <<voiceVars, chunkVars, synthVars, clientVars>>

\* np.concatenate(audio_segments) and sf.write(output_path, ...)
WriteOutput(j) ==
    /\ jpc[j] = "loop"
    /\ ji[j] = Len(jchunks[j])
    /\ IF segs[j] = <<>>
       THEN /\ Raise(j, "need at least one array to concatenate")
            /\ UNCHANGED files
       ELSE \E outcome \in {"ok", "error opening output file"} :
            IF outcome = "ok"
            THEN /\ files' = files \cup {j}
                 /\ Goto(j, "increment_usage")
                 /\ UNCHANGED exc
            ELSE /\ Raise(j, outcome)
                 /\ UNCHANGED files
    /\ UNCHANGED <<tasks, jtext, jchunks, ji, segs, sent, usage_count, response>>
    /\ UNCHANGED <<voiceVars, chunkVars, synthVars, clientVars>>

\* the counter written although increment_usage raises afterwards
IncrementUsageThenRaise(j) ==
    /\ jpc[j] = "increment_usage"
    /\ usage_count' = usage_count + 1
    /\ \E outcome \in {"ok", "database connection failed"} :
        IF outcome = "ok"
        THEN /\ Goto(j, "set_completed")
             /\ UNCHANGED exc
        ELSE Raise(j, outcome)
    /\ UNCHANGED <<tasks, jtext, jchunks, ji, segs, sent, files, response>>
    /\ UNCHANGED <<voiceVars, chunkVars, synthVars, clientVars>>

\* increment_usage(voice.voice_id)
IncrementUsage(j) ==
    /\ jpc[j] = "increment_usage"
    /\ \E outcome \in {"ok", "database connection failed"} :
        IF outcome = "ok"
        THEN /\ usage_count' = usage_count + 1
             /\ Goto(j, "set_completed")
             /\ UNCHANGED exc
        ELSE /\ Raise(j, outcome)
             /\ UNCHANGED usage_count
    /\ UNCHANGED <<tasks, jtext, jchunks, ji, segs, sent, files, response>>
    /\ UNCHANGED <<voiceVars, chunkVars, synthVars, clientVars>>

\* tasks[task_id]["status"] = "completed"
SetCompleted(j) ==
    /\ jpc[j] = "set_completed"
    /\ tasks' = SetField(j, "status", "completed")
    /\ Goto(j, "set_progress_100")
    /\ UNCHANGED <<jtext, jchunks, ji, segs, exc, sent, files, usage_count, response>>
    /\ UNCHANGED <<voiceVars, chunkVars, synthVars, clientVars>>

\* tasks[task_id]["progress"] = 100
SetProgress100(j) ==
    /\ jpc[j] = "set_progress_100"
    /\ tasks' = SetField(j, "progress", 100)
    /\ Goto(j, "set_audio_url")
    /\ UNCHANGED <<jtext, jchunks, ji, segs, exc, sent, files, usage_count, response>>
    /\ UNCHANGED <<voiceVars, chunkVars, synthVars, clientVars>>

\* tasks[task_id]["audio_url"] = f"/output/audio/{output_path.name}"
SetAudioUrl(j) ==
    /\ jpc[j] = "set_audio_url"
    /\ tasks' = SetField(j, "audio_url", "/output/audio/<task_id>.wav")
    /\ Goto(j, "done")
    /\ UNCHANGED <<jtext, jchunks, ji, segs, exc, sent, files, usage_count, response>>
    /\ UNCHANGED <<voiceVars, chunkVars, synthVars, clientVars>>

\* the except block also resetting the progress
SetFailedResetting(j) ==
    /\ jpc[j] = "except"
    /\ tasks' = [tasks EXCEPT ![j]["status"] = "failed", ![j]["progress"] = 0]
    /\ Goto(j, "set_error")
    /\ UNCHANGED <<jtext, jchunks, ji, segs, exc, sent, files, usage_count, response>>
    /\ UNCHANGED <<voiceVars, chunkVars, synthVars, clientVars>>

\* except Exception as e: tasks[task_id]["status"] = "failed"
SetFailed(j) ==
    /\ jpc[j] = "except"
    /\ tasks' = SetField(j, "status", "failed")
    /\ Goto(j, "set_error")
    /\ UNCHANGED <<jtext, jchunks, ji, segs, exc, sent, files, usage_count, response>>
    /\ UNCHANGED <<voiceVars, chunkVars, synthVars, clientVars>>

\* tasks[task_id]["error"] = str(e)
SetError(j) ==
    /\ jpc[j] = "set_error"
    /\ tasks' = SetField(j, "error", exc[j])
    /\ Goto(j, "done")
    /\ UNCHANGED <<jtext, jchunks, ji, segs, exc, sent, files, usage_count, response>>
    /\ UNCHANGED <<voiceVars, chunkVars, synthVars, clientVars>>

run_tts_job(j) ==
    \/ SetProcessing(j)
    \/ SetProgress5(j)
    \/ Prepare(j)
    \/ SynthCall(j)
    \/ SynthRaise(j)
    \/ SynthReturn(j)
    \/ SetChunkProgress(j)
    \/ WriteOutput(j)
    \/ IncrementUsage(j)
    \/ SetCompleted(j)
    \/ SetProgress100(j)
    \/ SetAudioUrl(j)
    \/ SetFailed(j)
    \/ SetError(j)

\* ------------------------------------------------------------------ RunPod client
\* one call of RunPodTTSClient.synthesize_with_reference_audio
PollBudget == 30

RemoteStatuses == {"IN_QUEUE", "IN_PROGRESS", "COMPLETED", "FAILED", "CANCELLED"}

\* the JSON bodies the remote service may answer with: has_id says whether the
\* body carries a non-empty "id", output is what its "output" holds
RemoteResponses ==
    [has_id : BOOLEAN, status : RemoteStatuses,
     output : {"missing", "no audio_b64", "audio_b64"}]

NoResult == [has_id |-> FALSE, status |-> "none", output |-> "missing"]

ClientIdle ==
    /\ rpc = "idle"
    /\ result = NoResult
    /\ posts = 0
    /\ polls = 0
    /\ cret = "none"

\* raise RuntimeError(f"<text>: {result}"): cret keeps the text m of the message,
\* the body it echoes is the variable result, which the raise leaves as it is
ClientRaise(m) ==
    /\ rpc' = "raised"
    /\ cret' = m

\* the text of the message raised for a result r whose status is not COMPLETED
NotCompletedMessage(r) == "RunPod job not completed"

\* requests.post(...); response.raise_for_status(); result = response.json()
Post ==
    /\ rpc = "idle"
    /\ posts' = posts + 1
    /\ \/ /\ ClientRaise("transport error")
          /\ UNCHANGED result
       \/ /\ \E r \in RemoteResponses : result' = r
          /\ rpc' = "check_id"
          /\ UNCHANGED cret
    /\ UNCHANGED polls
    /\ UNCHANGED <<voiceVars, chunkVars, synthVars, jobVars>>

\* job_id = result.get("id"); if not job_id: raise
CheckJobId ==
    /\ rpc = "check_id"
    /\ IF ~result.has_id
       THEN ClientRaise("RunPod response missing job id")
       ELSE rpc' = "check_queue" /\ UNCHANGED cret
    /\ UNCHANGED <<result, posts, polls>>
    /\ UNCHANGED <<voiceVars, chunkVars, synthVars, jobVars>>

\* if result.get("status") in ("IN_QUEUE", "IN_PROGRESS"): enter the poll loop
CheckQueue ==
    /\ rpc = "check_queue"
    /\ rpc' = IF result.status \in {"IN_QUEUE", "IN_PROGRESS"}
              THEN "poll" ELSE "check_completed"
    /\ UNCHANGED <<result, posts, polls, cret>>
    /\ UNCHANGED <<voiceVars, chunkVars, synthVars, jobVars>>

\* the poll loop without its break
PollNoBreak ==
    /\ rpc = "poll"
    /\ polls < PollBudget
    /\ polls' = polls + 1
    /\ \/ /\ ClientRaise("transport error")
          /\ UNCHANGED result
       \/ /\ \E r \in RemoteResponses : result' = r
          /\ rpc' = "poll"
          /\ UNCHANGED cret
    /\ UNCHANGED posts
    /\ UNCHANGED <<voiceVars, chunkVars, synthVars, jobVars>>

\* the poll loop left at the first status that is no longer pending
PollBreakOnTerminal ==
    /\ rpc = "poll"
    /\ polls < PollBudget
    /\ polls' = polls + 1
    /\ \/ /\ ClientRaise("transport error")
          /\ UNCHANGED result
       \/ /\ \E r \in RemoteResponses :
                /\ result' = r
                /\ rpc' = IF r.status \in {"IN_QUEUE", "IN_PROGRESS"}
                          THEN "poll" ELSE "check_completed"
          /\ UNCHANGED cret
    /\ UNCHANGED posts
    /\ UNCHANGED <<voiceVars, chunkVars, synthVars, jobVars>>

\* one iteration of for _ in range(30): sleep, GET /status/{job_id},
\* raise_for_status, result = status_resp.json(), break when COMPLETED
Poll ==
    /\ rpc = "poll"
    /\ polls < PollBudget
    /\ polls' = polls + 1
    /\ \/ /\ ClientRaise("transport error")
          /\ UNCHANGED result
       \/ /\ \E r \in RemoteResponses :
                /\ result' = r
                /\ rpc' = IF r.status = "COMPLETED" THEN "check_completed" ELSE "poll"
          /\ UNCHANGED cret
    /\ UNCHANGED posts
    /\ UNCHANGED <<voiceVars, chunkVars, synthVars, jobVars>>

\* the request submitted again once range(30) is used up
PollExhaustedResubmit ==
    /\ rpc = "poll"
    /\ polls = PollBudget
    /\ rpc' = "idle"
    /\ UNCHANGED <<result, posts, polls, cret>>
    /\ UNCHANGED <<voiceVars, chunkVars, synthVars, jobVars>>

\* the loop started over once range(30) is used up
PollExhaustedRestart ==
    /\ rpc = "poll"
    /\ polls = PollBudget
    /\ polls' = 0
    /\ UNCHANGED <<rpc, result, posts, cret>>
    /\ UNCHANGED <<voiceVars, chunkVars, synthVars, jobVars>>

\* range(30) is used up
PollExhausted ==
    /\ rpc = "poll"
    /\ polls = PollBudget
    /\ rpc' = "check_completed"
    /\ UNCHANGED <<result, posts, polls, cret>>
    /\ UNCHANGED <<voiceVars, chunkVars, synthVars, jobVars>>

\* if result.get("status") != "COMPLETED": raise
CheckCompleted ==
    /\ rpc = "check_completed"
    /\ IF result.status # "COMPLETED"
       THEN ClientRaise(NotCompletedMessage(result))
       ELSE rpc' = "check_output" /\ UNCHANGED cret
    /\ UNCHANGED <<result, posts, polls>>
    /\ UNCHANGED <<voiceVars, chunkVars, synthVars, jobVars>>

\* the output check reduced to "if not output"
CheckOutputPresentOnly ==
    /\ rpc = "check_output"
    /\ IF result.output = "missing"
       THEN ClientRaise("Invalid RunPod output")
       ELSE rpc' = "returned" /\ cret' = "bytes"
    /\ UNCHANGED <<result, posts, polls>>
    /\ UNCHANGED <<voiceVars, chunkVars, synthVars, jobVars>>

\* output = result.get("output"); raise unless it holds audio_b64; return bytes
CheckOutput ==
    /\ rpc = "check_output"
    /\ IF result.output # "audio_b64"
       THEN ClientRaise("Invalid RunPod output")
       ELSE rpc' = "returned" /\ cret' = "bytes"
    /\ UNCHANGED <<result, posts, polls>>
    /\ UNCHANGED <<voiceVars, chunkVars, synthVars, jobVars>>

synthesize_with_reference_audio ==
    \/ Post
    \/ CheckJobId
    \/ CheckQueue
    \/ Poll
    \/ PollExhausted
    \/ CheckCompleted
    \/ CheckOutput

\* ------------------------------------------------------------------ AudioSynthesizer
\* one call of AudioSynthesizer.synthesize_chunks(text_chunks, voice_id)
MinChunkChars == 20

\* n letters without a terminal mark
Letters(n) == [k \in 1..n |-> "a"]

\* chunk texts around the skip threshold: two characters; 19 characters; 20
\* with and without a terminal mark; 19 made longer by surrounding blanks
SynthChunkTexts ==
    { ShortText,
      Sentence(MinChunkChars - 1),
      Sentence(MinChunkChars),
      Letters(MinChunkChars),
      <<" ">> \o Sentence(MinChunkChars - 1) \o <<" ">> }

RECURSIVE ChunkListsUpTo(_)
ChunkListsUpTo(n) ==
    IF n = 0 THEN {<<>>}
    ELSE LET shorter == ChunkListsUpTo(n - 1)
         IN  shorter \cup {Append(l, c) : l \in {x \in shorter : Len(x) = n - 1},
                                          c \in SynthChunkTexts}

\* clean = text.strip(); if not clean.endswith((".", "!", "?")): clean += "."
Clean(t) ==
    LET clean == Strip(t)
    IN  IF clean # <<>> /\ IsTerminal(clean[Len(clean)]) THEN clean
        ELSE Append(clean, ".")

\* _decode_wav: a sample rate other than self.sample_rate is logged as a
\* warning and the decoded audio returned all the same
_decode_wav(chunk, sr) == [kind |-> "audio", chunk |-> chunk, rate |-> sr]

SynthesizerIdle ==
    /\ text_chunks = <<>>
    /\ apc = "start"
    /\ idx = 0
    /\ requests = <<>>
    /\ audio_segments = <<>>
    /\ aret = "none"

SynthesizerRaise(m) ==
    /\ apc' = "raised"
    /\ aret' = m

\* embedding = get_speaker_embedding(voice_id); if not embedding: raise
GetEmbedding ==
    /\ apc = "start"
    /\ \/ apc' = "loop" /\ UNCHANGED aret
       \/ SynthesizerRaise("No speaker embedding")
    /\ UNCHANGED <<text_chunks, idx, requests, audio_segments>>
    /\ UNCHANGED <<voiceVars, chunkVars, jobVars, clientVars>>

\* if len(clean) < 20: logger.warning(...); continue
SkipTinyChunk ==
    /\ apc = "loop"
    /\ idx < Len(text_chunks)
    /\ Len(Strip(text_chunks[idx + 1])) < MinChunkChars
    /\ idx' = idx + 1
    /\ UNCHANGED <<text_chunks, apc, requests, audio_segments, aret>>
    /\ UNCHANGED <<voiceVars, chunkVars, jobVars, clientVars>>

\* self.runpod_client.synthesize_with_embedding(text=clean, ...) is called
SendChunk ==
    /\ apc = "loop"
    /\ idx < Len(text_chunks)
    /\ Len(Strip(text_chunks[idx + 1])) >= MinChunkChars
    /\ requests' = Append(requests, [chunk |-> idx + 1, text |-> Clean(text_chunks[idx + 1])])
    /\ apc' = "call"
    /\ UNCHANGED <<text_chunks, idx, audio_segments, aret>>
    /\ UNCHANGED <<voiceVars, chunkVars, jobVars, clientVars>>

\* the client raised: synthesize_chunks has no handler
ChunkCallRaises ==
    /\ apc = "call"
    /\ \E m \in {"transport error", "Invalid RunPod response"} : SynthesizerRaise(m)
    /\ UNCHANGED <<text_chunks, idx, requests, audio_segments>>
    /\ UNCHANGED <<voiceVars, chunkVars, jobVars, clientVars>>

\* wav = self._decode_wav(audio_bytes); audio_segments.append(wav)
ChunkCallReturns ==
    /\ apc = "call"
    /\ \E sr \in RemoteSampleRates :
          audio_segments' = Append(audio_segments, _decode_wav(idx + 1, sr))
    /\ idx' = idx + 1
    /\ apc' = "loop"
    /\ UNCHANGED <<text_chunks, requests, aret>>
    /\ UNCHANGED <<voiceVars, chunkVars, jobVars, clientVars>>

\* if not audio_segments: raise; full_audio = torch.cat(audio_segments); return
Concatenate ==
    /\ apc = "loop"
    /\ idx = Len(text_chunks)
    /\ IF audio_segments = <<>>
       THEN SynthesizerRaise("No audio chunks generated")
       ELSE apc' = "returned" /\ aret' = "full_audio"
    /\ UNCHANGED <<text_chunks, idx, requests, audio_segments>>
    /\ UNCHANGED <<voiceVars, chunkVars, jobVars, clientVars>>

synthesize_chunks ==
    \/ GetEmbedding
    \/ SkipTinyChunk
    \/ SendChunk
    \/ ChunkCallRaises
    \/ ChunkCallReturns
    \/ Concatenate

\* ------------------------------------------------------------------ chunker harness
RECURSIVE SeqsUpTo(_)
SeqsUpTo(n) ==
    IF n = 0 THEN {<<>>}
    ELSE LET shorter == SeqsUpTo(n - 1)
         IN  shorter \cup {Append(s, c) : s \in {x \in shorter : Len(x) = n - 1}, c \in Chars}

\* ------------------------------------------------------------------ voice profiles
\* create_voice_profile and set_default_voice of database/voice_service.py, one
\* step per SQL statement. All calls are made for one user, whose rows
\* voice_profiles holds.
VoiceIds == 1..MaxVoices

Callers == 1..MaxCallers

NoCall == [op |-> "none", pc |-> "idle", voice_id |-> 0, is_default |-> FALSE, tx |-> FALSE]

VoicesIdle ==
    /\ USE_POSTGRES = TRUE
    /\ voice_profiles = {}
    /\ calls = [c \in Callers |-> NoCall]

\* get_db(): the PostgreSQL connection has autocommit = True, every statement
\* is committed as it is executed; the SQLite connection opens a transaction
\* at its first UPDATE or INSERT and holds the database's write lock until
\* commit, keeping the statements of any other connection out
Locked(c) == ~USE_POSTGRES /\ \E o \in Callers \ {c} : calls[o].tx

Executed(c, next) ==
    calls' = [calls EXCEPT ![c].pc = next, ![c].tx = ~USE_POSTGRES]

\* UPDATE voice_profiles SET is_default = FALSE WHERE user_id = ?
ClearDefault(c, next) ==
    /\ calls[c].pc = "clear"
    /\ ~Locked(c)
    /\ voice_profiles' = {[r EXCEPT !.is_default = FALSE] : r \in voice_profiles}
    /\ Executed(c, next)
    /\ UNCHANGED USE_POSTGRES
    /\ UNCHANGED <<chunkVars, synthVars, jobVars, clientVars>>

\* conn.commit(), return, conn.close()
Commit(c) ==
    /\ calls[c].pc = "commit"
    /\ calls' = [calls EXCEPT ![c] = NoCall]
    /\ UNCHANGED <<USE_POSTGRES, voice_profiles>>
    /\ UNCHANGED <<chunkVars, synthVars, jobVars, clientVars>>

\* sqlite3.OperationalError("database is locked") at the first statement
DatabaseLocked(c) ==
    /\ calls[c].pc \in {"clear", "insert"}
    /\ ~calls[c].tx
    /\ Locked(c)
    /\ calls' = [calls EXCEPT ![c] = NoCall]
    /\ UNCHANGED <<USE_POSTGRES, voice_profiles>>
    /\ UNCHANGED <<chunkVars, synthVars, jobVars, clientVars>>

\* voice_id = str(uuid.uuid4()); ...; with get_db() as conn
CreateBegin(c) ==
    /\ calls[c].pc = "idle"
    /\ \E v \in VoiceIds, d \in BOOLEAN :
          /\ v \notin {r.voice_id : r \in voice_profiles}
          /\ \A o \in Callers : ~(calls[o].op = "create" /\ calls[o].voice_id = v)
          /\ calls' = [calls EXCEPT ![c] =
                          [op |-> "create", pc |-> IF d THEN "clear" ELSE "insert",
                           voice_id |-> v, is_default |-> d, tx |-> FALSE]]
    /\ UNCHANGED <<USE_POSTGRES, voice_profiles>>
    /\ UNCHANGED <<chunkVars, synthVars, jobVars, clientVars>>

\* INSERT INTO voice_profiles (..., is_default) VALUES (...)
CreateInsert(c) ==
    /\ calls[c].op = "create"
    /\ calls[c].pc = "insert"
    /\ ~Locked(c)
    /\ voice_profiles' = voice_profiles \cup
            {[voice_id |-> calls[c].voice_id, is_default |-> calls[c].is_default]}
    /\ Executed(c, "commit")
    /\ UNCHANGED USE_POSTGRES
    /\ UNCHANGED <<chunkVars, synthVars, jobVars, clientVars>>

create_voice_profile(c) ==
    \/ CreateBegin(c)
    \/ calls[c].op = "create" /\ ClearDefault(c, "insert")
    \/ CreateInsert(c)
    \/ calls[c].op = "create" /\ DatabaseLocked(c)
    \/ calls[c].op = "create" /\ Commit(c)

\* set_default_voice(user_id, voice_id): with get_db() as conn
SetDefaultBegin(c) ==
    /\ calls[c].pc = "idle"
    /\ \E v \in VoiceIds :
          calls' = [calls EXCEPT ![c] =
                       [op |-> "set_default", pc |-> "clear",
                        voice_id |-> v, is_default |-> TRUE, tx |-> FALSE]]
    /\ UNCHANGED <<USE_POSTGRES, voice_profiles>>
    /\ UNCHANGED <<chunkVars, synthVars, jobVars, clientVars>>

\* UPDATE voice_profiles SET is_default = TRUE WHERE voice_id = ? AND user_id = ?
SetDefaultMark(c) ==
    /\ calls[c].op = "set_default"
    /\ calls[c].pc = "mark"
    /\ voice_profiles' = {IF r.voice_id = calls[c].voice_id
                          THEN [r EXCEPT !.is_default = TRUE] ELSE r :
                          r \in voice_profiles}
    /\ Executed(c, "commit")
    /\ UNCHANGED USE_POSTGRES
    /\ UNCHANGED <<chunkVars, synthVars, jobVars, clientVars>>

set_default_voice(c) ==
    \/ SetDefaultBegin(c)
    \/ calls[c].op = "set_default" /\ ClearDefault(c, "mark")
    \/ SetDefaultMark(c)
    \/ calls[c].op = "set_default" /\ DatabaseLocked(c)
    \/ calls[c].op = "set_default" /\ Commit(c)

ChunkerIdle ==
    /\ text = <<>>
    /\ max_chars = DefaultMaxChars
    /\ chunks = <<>>
    /\ cpc = "input"

InitChunker ==
    /\ SynthesizerIdle
    /\ JobsIdle
    /\ ClientIdle
    /\ VoicesIdle
    /\ text \in SeqsUpTo(MaxLen)
    /\ max_chars \in 1..MaxChars
    /\ chunks = <<>>
    /\ cpc = "input"

CallCreateChunks ==
    /\ cpc = "input"
    /\ chunks' = create_chunks(text, max_chars)
    /\ cpc' = "create_chunks"
    /\ UNCHANGED <<text, max_chars>>
    /\ UNCHANGED <<voiceVars, synthVars, jobVars, clientVars>>

CallSplitIntoSafeChunks ==
    /\ cpc = "input"
    /\ chunks' = split_into_safe_chunks(text, max_chars)
    /\ cpc' = "split_into_safe_chunks"
    /\ UNCHANGED <<text, max_chars>>
    /\ UNCHANGED <<voiceVars, synthVars, jobVars, clientVars>>

NextChunker ==
    \/ CallCreateChunks
    \/ CallSplitIntoSafeChunks

SpecChunker == InitChunker /\ [][NextChunker]_vars

\* ------------------------------------------------------------------ the API with its jobs
Init ==
    /\ ChunkerIdle
    /\ SynthesizerIdle
    /\ JobsIdle
    /\ ClientIdle
    /\ VoicesIdle

Next ==
    \/ generate_tts
    \/ get_tts_status
    \/ \E j \in JobIds : run_tts_job(j)

Spec == Init /\ [][Next]_vars

\* ------------------------------------------------------------------ one client call
InitClient ==
    /\ ChunkerIdle
    /\ SynthesizerIdle
    /\ JobsIdle
    /\ ClientIdle
    /\ VoicesIdle

NextClient == synthesize_with_reference_audio

SpecClient == InitClient /\ [][NextClient]_vars

\* ------------------------------------------------------------------ one job with its client
\* run_tts_job with every call of synthesize_with_reference_audio run step by
\* step: the job waits at "synth" while the client works, then takes the bytes
\* the call returned or the exception it raised
PipelineGenerate ==
    /\ tasks = <<>>
    /\ \E t \in JobTexts : GenerateAccepted("v1", 0, t)

\* the steps of run_tts_job other than the end of a client call
PipelineJobStep(j) ==
    \/ SetProcessing(j)
    \/ SetProgress5(j)
    \/ Prepare(j)
    \/ SynthCall(j)
    \/ SetChunkProgress(j)
    \/ WriteOutput(j)
    \/ IncrementUsage(j)
    \/ SetCompleted(j)
    \/ SetProgress100(j)
    \/ SetAudioUrl(j)
    \/ SetFailed(j)
    \/ SetError(j)

\* the client works on the request of the waiting job
PipelineClientStep ==
    /\ \E j \in JobIds : jpc[j] = "synth"
    /\ synthesize_with_reference_audio

\* the exception of the client propagates into run_tts_job
PipelineSynthRaise(j) ==
    /\ rpc = "raised"
    /\ SynthRaised(j, cret)
    /\ UNCHANGED clientVars

\* audio_bytes = runpod.synthesize_with_reference_audio(...): the call is over,
\* the next one starts with fresh locals
PipelineSynthReturn(j) ==
    /\ rpc = "returned"
    /\ SynthReturned(j)
    /\ rpc' = "idle"
    /\ result' = NoResult
    /\ posts' = 0
    /\ polls' = 0
    /\ cret' = "none"

NextPipeline ==
    \/ PipelineGenerate
    \/ PipelineClientStep
    \/ \E j \in JobIds : PipelineJobStep(j)
    \/ \E j \in JobIds : PipelineSynthRaise(j)
    \/ \E j \in JobIds : PipelineSynthReturn(j)

SpecPipeline == Init /\ [][NextPipeline]_vars

\* the background task is scheduled and keeps running, and every request of
\* the client is answered or ends at its transport timeout
\* (Prepare(j) is enabled exactly while jpc[j] = "prepare" and every step of it
\* leaves that position, so its weak fairness is []<>(jpc[j] # "prepare"))
FairPipeline ==
    /\ WF_vars(PipelineClientStep)
    /\ \A j \in JobIds :
          /\ []<>(jpc[j] # "prepare")
          /\ WF_vars(\/ SetProcessing(j)
                     \/ SetProgress5(j)
                     \/ SynthCall(j)
                     \/ PipelineSynthRaise(j)
                     \/ PipelineSynthReturn(j)
                     \/ SetChunkProgress(j)
                     \/ WriteOutput(j)
                     \/ IncrementUsage(j)
                     \/ SetCompleted(j)
                     \/ SetProgress100(j)
                     \/ SetAudioUrl(j)
                     \/ SetFailed(j)
                     \/ SetError(j))

SpecPipelineFair == Init /\ [][NextPipeline]_vars /\ FairPipeline

\* ------------------------------------------------------------------ jobs over several chunks
\* the paragraph pause of the synchronous pipeline: if idx % 4 == 0
PauseEvery == 4

\* requests whose text splits into 1 .. PauseEvery chunks
AssemblyGenerate ==
    \E k \in 1..PauseEvery : GenerateAccepted("v1", 0, LongText(k))

NextAssembly ==
    \/ AssemblyGenerate
    \/ \E j \in JobIds : run_tts_job(j)

SpecAssembly == Init /\ [][NextAssembly]_vars

\* ------------------------------------------------------------------ jobs side by side
\* up to MaxWorkers requests of one chunk each, their background tasks
\* interleaved step by step
ConcurrentGenerate ==
    GenerateAcceptedAmong("v1", 0, LongText(1), JobIds)

NextConcurrent ==
    \/ ConcurrentGenerate
    \/ \E j \in JobIds : run_tts_job(j)

SpecConcurrent == Init /\ [][NextConcurrent]_vars

\* ------------------------------------------------------------------ one synthesize_chunks call
InitSynthesizer ==
    /\ ChunkerIdle
    /\ JobsIdle
    /\ ClientIdle
    /\ VoicesIdle
    /\ text_chunks \in ChunkListsUpTo(MaxSynthChunks)
    /\ apc = "start"
    /\ idx = 0
    /\ requests = <<>>
    /\ audio_segments = <<>>
    /\ aret = "none"

NextSynthesizer == synthesize_chunks

SpecSynthesizer == InitSynthesizer /\ [][NextSynthesizer]_vars

\* ------------------------------------------------------------------ calls on the voice profiles
InitVoices ==
    /\ ChunkerIdle
    /\ SynthesizerIdle
    /\ JobsIdle
    /\ ClientIdle
    /\ USE_POSTGRES \in BOOLEAN
    /\ voice_profiles = {}
    /\ calls = [c \in Callers |-> NoCall]

NextVoices ==
    \/ \E c \in Callers : create_voice_profile(c)
    \/ \E c \in Callers : set_default_voice(c)

SpecVoices == InitVoices /\ [][NextVoices]_vars

\* ------------------------------------------------------------------ chunker claims
Returned == cpc # "input"

\* the sentences the chunker that ran iterates over: create_chunks strips the
\* text before splitting, split_into_safe_chunks splits it as given
Sentences ==
    IF cpc = "split_into_safe_chunks" THEN StripNonEmpty(ReSplit(text))
    ELSE split_into_sentences(text)

RECURSIVE Flatten(_)
Flatten(ss) == IF ss = <<>> THEN <<>> ELSE Head(ss) \o Flatten(Tail(ss))

RECURSIVE JoinSpace(_)
JoinSpace(ss) ==
    IF ss = <<>> THEN <<>>
    ELSE IF Len(ss) = 1 THEN Head(ss)
    ELSE Head(ss) \o <<" ">> \o JoinSpace(Tail(ss))

\* the sentences held by each returned chunk, chunk by chunk
ChunkSentences == [k \in 1..Len(chunks) |-> split_into_sentences(chunks[k])]

Oversized(s) == Len(s) > max_chars

\* C1: every returned chunk has at most max_chars characters, except a chunk
\* that consists of exactly one sentence which is itself longer than max_chars
\* (so a chunk of two or more sentences joined by spaces never exceeds it).
C1_ChunkWithinLimit ==
    Returned =>
        \A k \in 1..Len(chunks) :
            \/ Len(chunks[k]) <= max_chars
            \/ /\ Len(ChunkSentences[k]) = 1
               /\ Oversized(ChunkSentences[k][1])

\* C2: every chunk of the returned list is a non-empty string, also when the
\* first sentence of the text is longer than the limit.
C2_ChunksNonEmpty ==
    Returned => \A k \in 1..Len(chunks) : chunks[k] # <<>>

\* C3: the chunker never splits, truncates, drops, duplicates or reorders a
\* sentence: every chunk is the space-joined run of the sentences it holds,
\* the chunks read in order give the sentences of the text in their original
\* order, and a sentence longer than the limit is alone in its chunk.
C3_SentencesPreserved ==
    Returned =>
        /\ Flatten(ChunkSentences) = Sentences
        /\ \A k \in 1..Len(chunks) :
              /\ chunks[k] = JoinSpace(ChunkSentences[k])
              /\ (\E n \in 1..Len(ChunkSentences[k]) : Oversized(ChunkSentences[k][n]))
                    => Len(ChunkSentences[k]) = 1

\* a call that returned a chunk of two sentences, a later chunk, and a chunk
\* holding a sentence longer than the limit
C3_Witness ==
    /\ Returned
    /\ Len(chunks) >= 3
    /\ \E k \in 1..Len(chunks) : Len(ChunkSentences[k]) >= 2
    /\ \E k \in 1..Len(chunks) :
          Len(ChunkSentences[k]) = 1 /\ Oversized(ChunkSentences[k][1])

\* ------------------------------------------------------------------ job claims
Terminal == {"completed", "failed"}

StatusMoves ==
    { <<"queued", "processing">>, <<"processing", "completed">>,
      <<"processing", "failed">> }

\* the job's background task has caught an exception
Failing(j) == exc[j] # NoExc

\* run_tts_job has returned
Finished(j) == jpc[j] = "done"

\* C4: a job is created as queued with progress 0, its status only moves
\* queued -> processing -> completed or failed, and once the status is
\* completed or failed no later step changes the entry in any way.
C4_TerminalImmutable ==
    [][\A j \in DOMAIN tasks' :
        IF j \notin DOMAIN tasks
        THEN tasks'[j].status = "queued" /\ tasks'[j].progress = 0
        ELSE /\ \/ tasks'[j].status = tasks[j].status
                \/ <<tasks[j].status, tasks'[j].status>> \in StatusMoves
             /\ tasks[j].status \in Terminal => tasks'[j] = tasks[j]]_vars

\* C5: the progress stored for a job is an integer in 0..100 and it never
\* decreases from one state of the job to the next.
C5_ProgressMonotone ==
    /\ [](\A j \in DOMAIN tasks : tasks[j].progress \in 0..100)
    /\ [][\A j \in DOMAIN tasks : tasks'[j].progress >= tasks[j].progress]_vars

\* a job over two chunks that went 0, 5, 47, 90 and ended at 100
C5_Witness ==
    \E j \in DOMAIN tasks :
        /\ Finished(j)
        /\ Len(jchunks[j]) = 2
        /\ tasks[j].progress = 100

\* C6: whatever a status query returns, also between two writes of the running
\* job, status = completed implies progress = 100 and audio_url set, and
\* audio_url is set only when status = completed.
C6_CompletedObservedWhole ==
    (response.kind = "status" /\ response.code = 200) =>
        /\ response.body.status = "completed" =>
              response.body.progress = 100 /\ response.body.audio_url # Absent
        /\ response.body.audio_url # Absent => response.body.status = "completed"

\* C7: a job that fails ends with status failed and an error message set; from
\* the failure on its progress keeps the last value written (never reset, never
\* 100) and its status is never completed.
C7_FailedKeepsProgress ==
    /\ [](\A j \in DOMAIN tasks :
            /\ Failing(j) => tasks[j].status # "completed" /\ tasks[j].progress # 100
            /\ (Failing(j) /\ Finished(j)) =>
                  tasks[j].status = "failed" /\ tasks[j].error # Absent)
    /\ [][\A j \in DOMAIN tasks :
            (Failing(j) \/ tasks[j].status = "failed") =>
                /\ tasks'[j].progress = tasks[j].progress
                /\ tasks'[j].status # "completed"]_vars

\* a job that failed while processing its second chunk: progress stays at 47
C7_Witness ==
    \E j \in DOMAIN tasks :
        /\ Finished(j)
        /\ tasks[j].status = "failed"
        /\ sent[j] = <<1, 2>>
        /\ tasks[j].progress = 47

\* C8: an exception raised at any step ends the job as failed with the
\* exception's message as its error, and the job sends no synthesis request
\* after it; no chunk is ever requested twice.
C8_ExceptionFailsJob ==
    /\ [](\A j \in DOMAIN tasks :
            /\ (Failing(j) /\ Finished(j)) =>
                  tasks[j].status = "failed" /\ tasks[j].error = exc[j]
            /\ \A m, n \in 1..Len(sent[j]) : m < n => sent[j][m] < sent[j][n])
    /\ [][\A j \in DOMAIN tasks : Failing(j) => sent'[j] = sent[j]]_vars

\* a job failed by the last step that can raise, the usage increment, after
\* both of its chunks were requested once
C8_Witness ==
    \E j \in DOMAIN tasks :
        /\ Finished(j)
        /\ tasks[j].status = "failed"
        /\ tasks[j].error = "database connection failed"
        /\ sent[j] = <<1, 2>>

\* C9: a job that ends failed has produced no final audio artifact: the output
\* file exists only for a job that ends completed.
C9_NoArtifactWhenFailed ==
    \A j \in DOMAIN tasks :
        (Finished(j) /\ tasks[j].status = "failed") => j \notin files

\* ------------------------------------------------------------------ client claims
\* C10: one synthesize call sends at most 30 status polls, sends a poll only
\* while the last result is not COMPLETED, and so sends none after the first
\* poll that answered COMPLETED.
C10_PollsBounded ==
    /\ [](polls <= PollBudget)
    /\ [][polls' # polls =>
            /\ polls' = polls + 1
            /\ result.status \in {"IN_QUEUE", "IN_PROGRESS"} \/ polls > 0
            /\ result.status # "COMPLETED"]_vars

\* a call that used the whole budget and whose 30th poll answered COMPLETED
C10_Witness ==
    /\ rpc = "returned"
    /\ polls = PollBudget
    /\ result.status = "COMPLETED"

\* ------------------------------------------------------------------ client and job claims
\* the remote job is still waiting or running
Pending == {"IN_QUEUE", "IN_PROGRESS"}

\* range(30) was used up and the last poll still answered a pending status
BudgetUsedUp ==
    /\ rpc = "check_completed"
    /\ polls = PollBudget
    /\ result.status \in Pending

\* C11: when the remote service answers a pending status to the request and to
\* every poll until the budget of 30 is used up, the call raises instead of
\* returning audio, having sent exactly one submit request and no further
\* poll, and the job that made the call ends failed with that error.
C11_ExhaustedBudgetFailsJob ==
    /\ [](posts <= 1 /\ (rpc # "idle" => posts = 1))
    /\ [][(BudgetUsedUp /\ rpc' # rpc) =>
            /\ rpc' = "raised"
            /\ cret' = "RunPod job not completed"
            /\ posts' = 1
            /\ polls' = PollBudget]_vars
    /\ [][\A j \in DOMAIN tasks :
            (jpc[j] = "synth" /\ jpc'[j] # "synth" /\ rpc = "raised") =>
                jpc'[j] = "except" /\ exc'[j] = cret]_vars
    /\ [](\A j \in DOMAIN tasks :
            (Finished(j) /\ rpc = "raised") =>
                /\ tasks[j].status = "failed"
                /\ tasks[j].error = cret
                /\ j \notin files)

\* a job ended failed by a call that polled 30 times and was still pending
C11_Witness ==
    \E j \in DOMAIN tasks :
        /\ Finished(j)
        /\ tasks[j].status = "failed"
        /\ tasks[j].error = "RunPod job not completed"
        /\ posts = 1
        /\ polls = PollBudget
        /\ result.status \in Pending

\* the call has ended, by returning or by raising
Ended == rpc \in {"returned", "raised"}

\* the response to the submit request is a completed result carrying the audio
InitialCompleted ==
    /\ posts = 1
    /\ polls = 0
    /\ result.status = "COMPLETED"
    /\ result.output = "audio_b64"

\* C12: for every initial response that is a completed result (status
\* COMPLETED, output carrying audio_b64), with or without a job id in it, the
\* call returns the decoded bytes and sends no status poll.
C12_CompletedReturnedAtOnce ==
    /\ [](InitialCompleted => rpc # "raised")
    /\ [][InitialCompleted => polls' = polls]_vars

\* the last result is COMPLETED without output, or with an output without audio_b64
CompletedWithoutAudio ==
    /\ result.status = "COMPLETED"
    /\ result.output # "audio_b64"

\* C13: when the remote job is COMPLETED, in the initial response or in a
\* poll, but the result has no output or its output has no audio_b64, the call
\* never returns bytes: it raises a protocol error whose message names the
\* invalid remote output (or, for an initial response that lacks the job id as
\* well, the missing job id).
C13_CompletedWithoutAudioRaises ==
    /\ CompletedWithoutAudio => rpc # "returned" /\ cret # "bytes"
    /\ (Ended /\ CompletedWithoutAudio) =>
            /\ rpc = "raised"
            /\ cret = IF polls > 0 \/ result.has_id
                      THEN "Invalid RunPod output"
                      ELSE "RunPod response missing job id"

\* a poll answered COMPLETED with an output that holds no audio_b64
C13_Witness ==
    /\ rpc = "raised"
    /\ cret = "Invalid RunPod output"
    /\ polls > 0
    /\ result.status = "COMPLETED"
    /\ result.output = "no audio_b64"

\* the statuses by which the remote service itself reports that the job failed
RemoteFailed == {"FAILED", "CANCELLED"}

\* C14: the error raised when the polling budget is used up is a timeout
\* error, different in its message text from the error the call raises when
\* the remote service itself reports the job as failed (every error of the
\* call has the same kind, RuntimeError, and echoes the last response).
C14_TimeoutErrorDistinct ==
    (rpc = "raised" /\ polls = PollBudget /\ result.status \in Pending
        /\ cret # "transport error") =>
        \A r \in RemoteResponses :
            r.status \in RemoteFailed => cret # NotCompletedMessage(r)

\* ------------------------------------------------------------------ assembly claims
\* C15: decoding audio whose sample rate differs from 24000 always raises the
\* sample-rate-mismatch error: in every decoder of the pipeline, no segment of
\* another rate is ever accepted into the list of segments.
C15_MismatchedRateRejected ==
    /\ \A j \in JobIds : \A k \in 1..Len(segs[j]) :
            segs[j][k].kind = "audio" => segs[j][k].rate = SAMPLE_RATE
    /\ \A k \in 1..Len(audio_segments) : audio_segments[k].rate = SAMPLE_RATE

\* what audio_segments holds after n chunks: audio(c1), silence, ..., audio(cn), silence
ExpectedSegments(n) ==
    [k \in 1..(2 * n) |->
        IF k % 2 = 1
        THEN [kind |-> "audio", chunk |-> (k + 1) \div 2, rate |-> SAMPLE_RATE]
        ELSE silence(35)]

\* C16: for a job that completes over the chunks c1..cn, the waveform written
\* is audio(c1), silence, audio(c2), silence, ..., audio(cn), silence in chunk
\* order: 2n segments, none reordered, duplicated or dropped; while the job
\* runs the list is such a sequence for the chunks finished so far.
C16_WaveformInChunkOrder ==
    \A j \in DOMAIN tasks :
        /\ \E n \in 0..Len(jchunks[j]) : segs[j] = ExpectedSegments(n)
        /\ (j \in files \/ tasks[j].status = "completed") =>
              segs[j] = ExpectedSegments(Len(jchunks[j]))

\* a job over four chunks that completed
C16_Witness ==
    \E j \in DOMAIN tasks :
        /\ Finished(j)
        /\ tasks[j].status = "completed"
        /\ Len(jchunks[j]) = PauseEvery
        /\ j \in files

\* the segment at place k is a pause longer than the 0.35 s one
LongPauseAt(j, k) ==
    /\ k \in 1..Len(segs[j])
    /\ segs[j][k].kind = "silence"
    /\ segs[j][k].samples > silence(35).samples

\* C17: in the assembled audio of a job every chunk is followed by a 0.35 s
\* pause, and every 4th chunk (index divisible by 4) is followed in addition
\* by a longer pause; run_tts_job does so like the synchronous pipeline.
C17_LongPauseEveryFourth ==
    \A j \in DOMAIN tasks :
        tasks[j].status = "completed" =>
            \A i \in 1..Len(jchunks[j]) :
                \E k \in 1..Len(segs[j]) :
                    /\ segs[j][k].kind = "audio" /\ segs[j][k].chunk = i
                    /\ k < Len(segs[j]) /\ segs[j][k + 1] = silence(35)
                    /\ i % PauseEvery = 0 => LongPauseAt(j, k + 2)

\* ------------------------------------------------------------------ empty and short texts
\* the request's text is empty or holds whitespace only: create_chunks gives no chunk
NoChunkText(j) == jtext[j] \in {<<>>, BlankText}

\* the exceptions a job can meet before or without a chunk: those of the
\* preparation, and np.concatenate refusing an empty list
NoChunkErrors ==
    { "voice file unreadable", "RUNPOD_API_KEY not found",
      "need at least one array to concatenate" }

Tiny(t) == Len(Strip(t)) < MinChunkChars

\* C19: a chunk whose trimmed length is under 20 characters is skipped without
\* failing the job and is never sent to the remote service, and every chunk of
\* 20 characters or more is sent; this holds in run_tts_job as in
\* AudioSynthesizer.synthesize_chunks.
C19_ShortChunksSkipped ==
    /\ \A j \in DOMAIN tasks :
          /\ \A n \in 1..Len(sent[j]) : ~Tiny(jchunks[j][sent[j][n]])
          /\ tasks[j].status = "completed" =>
                \A k \in 1..Len(jchunks[j]) :
                    ~Tiny(jchunks[j][k]) => \E n \in 1..Len(sent[j]) : sent[j][n] = k
    /\ \A n \in 1..Len(requests) : ~Tiny(text_chunks[requests[n].chunk])
    /\ apc = "returned" =>
          \A k \in 1..Len(text_chunks) :
              ~Tiny(text_chunks[k]) => \E n \in 1..Len(requests) : requests[n].chunk = k

\* C20: when every chunk is skipped as too short (a text such as "A.") the job
\* fails with the error that no audio was generated, makes no synthesis
\* request and never becomes completed.
C20_AllShortFailsJob ==
    /\ \A j \in DOMAIN tasks :
          (jchunks[j] # <<>> /\ \A k \in 1..Len(jchunks[j]) : Tiny(jchunks[j][k])) =>
              /\ sent[j] = <<>>
              /\ tasks[j].status # "completed"
              /\ Finished(j) => tasks[j].status = "failed"
    /\ (text_chunks # <<>> /\ \A k \in 1..Len(text_chunks) : Tiny(text_chunks[k])) =>
          /\ requests = <<>>
          /\ apc # "returned"
          /\ apc = "raised" =>
                aret \in {"No audio chunks generated", "No speaker embedding"}

\* ------------------------------------------------------------------ concurrent jobs
\* C21: when several jobs run concurrently, every write changes only the
\* tracker entry of the job whose background task makes it: creating a job
\* leaves every stored entry as it is, an entry changes only in a step of its
\* own task, that step changes no other entry, and no entry is ever removed.
C21_JobsIsolated ==
    [][/\ DOMAIN tasks \subseteq DOMAIN tasks'
       /\ DOMAIN tasks' # DOMAIN tasks =>
             \A k \in DOMAIN tasks : tasks'[k] = tasks[k]
       /\ \A k \in DOMAIN tasks :
             tasks'[k] # tasks[k] =>
                 /\ jpc'[k] # jpc[k]
                 /\ \A m \in DOMAIN tasks \ {k} :
                       tasks'[m] = tasks[m] /\ jpc'[m] = jpc[m]]_vars

\* two jobs in the middle of their runs at the same time, at different places
C21_Witness ==
    \E j, k \in DOMAIN tasks :
        /\ j # k
        /\ tasks[j].status = "processing" /\ tasks[j].progress = 90
        /\ tasks[k].status = "processing" /\ tasks[k].progress = 5
        /\ jpc[k] = "synth"

\* ------------------------------------------------------------------ request claims
\* the voice does not exist, or the authenticated user may not use it
MayNotUse(voice_id, user_id) ==
    \/ voice_id \notin DOMAIN VoiceOwner
    \/ user_id # 0 /\ VoiceOwner[voice_id] \notin {user_id, 1}

\* the step answers a generate request with 404 or 403
Rejects ==
    /\ response' # response
    /\ response'.kind = "generate"
    /\ response'.code \in {403, 404}

\* C22: a generate request naming a voice that does not exist, or one the
\* authenticated user may not use, is never accepted, and its rejection
\* changes nothing but the response: the task store is unchanged, no
\* background task is scheduled and no remote call is made.
C22_RejectedBeforeJob ==
    /\ [](\A voice_id \in RequestVoices, user_id \in RequestUsers :
            MayNotUse(voice_id, user_id) =>
                \A t \in JobTexts : ~ENABLED GenerateAccepted(voice_id, user_id, t))
    /\ [][Rejects =>
            /\ tasks' = tasks
            /\ jpc' = jpc /\ jtext' = jtext
            /\ sent' = sent /\ posts' = posts
            /\ files' = files /\ usage_count' = usage_count]_vars

\* a request rejected with 403 while an accepted job is running
C22_Witness ==
    /\ response.kind = "generate"
    /\ response.code = 403
    /\ \E j \in DOMAIN tasks : tasks[j].status = "processing"

\* ------------------------------------------------------------------ order of the calls
\* chunks of job j whose audio was decoded and appended
Appended(j) == Len(segs[j]) \div 2

\* C23: within one job the synthesis calls are strictly sequential and in
\* chunk order: the requests sent are those for chunks 1, 2, ... in that
\* order, the request for chunk i+1 is sent only when the call for chunk i
\* has returned and its audio was appended, and at most one call of the job
\* is in flight at any time.
C23_CallsSequential ==
    /\ [](\A j \in JobIds :
            /\ \A n \in 1..Len(sent[j]) : sent[j][n] = n
            /\ Len(sent[j]) - Appended(j) \in {0, 1}
            /\ jpc[j] = "synth" => Len(sent[j]) = Appended(j) + 1)
    /\ [][\A j \in JobIds :
            sent'[j] # sent[j] =>
                /\ jpc[j] # "synth"
                /\ Appended(j) = Len(sent[j])
                /\ sent'[j] = Append(sent[j], Len(sent[j]) + 1)]_vars

\* the request for the second chunk in flight, the first chunk's audio appended
C23_Witness ==
    \E j \in DOMAIN tasks :
        /\ jpc[j] = "synth"
        /\ sent[j] = <<1, 2>>
        /\ Appended(j) = 1

\* ------------------------------------------------------------------ progress band
\* run_tts_job is between the start of the preparation and the write of completed
InBand(j) ==
    jpc[j] \in {"prepare", "loop", "synth", "set_progress", "increment_usage",
                "set_completed"}

\* C24: while a job is processing its progress is 5 when the preparation of
\* the voice reference begins and, after chunk i of total chunks completes, it
\* is floor(5 + 85 * i / total); it stays inside 5..90 until completion and is
\* 90 exactly when the last chunk has completed, for every total >= 1.
C24_ProgressBand ==
    \A j \in DOMAIN tasks :
        InBand(j) =>
            /\ tasks[j].status = "processing"
            /\ tasks[j].progress \in 5..90
            /\ jpc[j] = "prepare" => tasks[j].progress = 5
            /\ jpc[j] # "prepare" =>
                  LET total == Len(jchunks[j])
                      i == ji[j]
                  IN  /\ i = 0 => tasks[j].progress = 5
                      /\ i > 0 =>
                            /\ total * (tasks[j].progress - 5) <= 85 * i
                            /\ 85 * i < total * (tasks[j].progress - 4)
                      /\ tasks[j].progress = 90 <=> (i = total /\ total >= 1)
                      /\ \A n \in 1..MaxTotal : \A k \in 1..n :
                            /\ ChunkProgress(k, n) \in 5..90
                            /\ ChunkProgress(k, n) = 90 <=> k = n

\* two of three chunks done: 5 + 170 / 3 = 61.67 is stored as 61
C24_Witness ==
    \E j \in DOMAIN tasks :
        /\ jpc[j] = "synth"
        /\ Len(jchunks[j]) = 3
        /\ ji[j] = 2
        /\ tasks[j].progress = 61

\* ------------------------------------------------------------------ termination
\* C25: every job accepted by generate_tts eventually reaches completed or
\* failed, provided its background task keeps being scheduled and every
\* remote call returns or hits its transport timeout: no job stays queued or
\* processing forever.
C25_JobsTerminate ==
    \A j \in JobIds :
        (j \in DOMAIN tasks) ~> (j \in DOMAIN tasks /\ tasks[j].status \in Terminal)

\* a job over two chunks that ran both client calls and ended completed
C25_Witness ==
    \E j \in DOMAIN tasks :
        /\ Finished(j)
        /\ tasks[j].status = "completed"
        /\ sent[j] = <<1, 2>>
        /\ rpc = "idle"
        /\ usage_count = 1

\* ------------------------------------------------------------------ remote failure
\* C26: once the remote service has reported the job FAILED or CANCELLED, in the
\* answer to the submit request or to a poll, that report stays the result of
\* the call and the call ends raising a protocol error that echoes it; it
\* never ends any other way.
C26_RemoteFailureRaisesProtocolError ==
    /\ []((Ended /\ result.status \in RemoteFailed) =>
              /\ rpc = "raised"
              /\ cret \in {NotCompletedMessage(result),
                           "RunPod response missing job id"})
    /\ [][(rpc = "poll" /\ result.status \in RemoteFailed) => result' = result]_vars

\* C27: a poll answered with a status other than COMPLETED leaves the client
\* in the loop; the loop is left only on COMPLETED or after 30 polls, and only
\* then the status check may raise; a first answer that is neither pending
\* nor COMPLETED goes to the status check and raises with no poll sent.
C27_LoopEndsOnCompletedOrBudget ==
    /\ [][(rpc = "poll" /\ polls' = polls + 1 /\ rpc' # "raised") =>
              rpc' = IF result'.status = "COMPLETED"
                     THEN "check_completed" ELSE "poll"]_vars
    /\ [][(rpc = "poll" /\ rpc' = "check_completed") =>
              (result'.status = "COMPLETED" \/ polls = PollBudget)]_vars
    /\ []((rpc = "raised" /\ cret = NotCompletedMessage(result) /\ polls > 0) =>
              (polls = PollBudget /\ result.status # "COMPLETED"))
    /\ [][(rpc = "check_queue" /\ result.status \notin Pending) =>
              (rpc' = "check_completed" /\ polls' = 0)]_vars
    /\ [][(rpc = "check_completed" /\ polls = 0
             /\ result.status \notin Pending \cup {"COMPLETED"}) =>
              (rpc' = "raised" /\ cret' = NotCompletedMessage(result) /\ polls' = 0)]_vars

\* the 29th poll was answered FAILED and the client is about to poll again
C27_Witness ==
    /\ rpc = "poll"
    /\ polls = PollBudget - 1
    /\ result.status \in RemoteFailed

\* ------------------------------------------------------------------ usage counter
\* the jobs whose call of increment_usage has returned
Counted == {j \in DOMAIN tasks : tasks[j].status = "completed" \/ jpc[j] = "set_completed"}

\* C28: the usage counter goes up by one at a time, only by the job that is at
\* its call of increment_usage, and it always equals the number of jobs that
\* are completed or about to be marked completed: a failed job has not
\* counted, a job that counted never becomes failed, a completed job stays so.
C28_UsageCountedOncePerCompletedJob ==
    /\ [](usage_count = Cardinality(Counted))
    /\ [](\A j \in DOMAIN tasks : tasks[j].status = "failed" => j \notin Counted)
    /\ [][usage_count' # usage_count =>
              /\ usage_count' = usage_count + 1
              /\ \E j \in DOMAIN tasks :
                    /\ jpc[j] = "increment_usage"
                    /\ jpc'[j] = "set_completed"]_vars
    /\ [][\A j \in Counted : j \in Counted' /\ tasks'[j].status # "failed"]_vars

\* both jobs ended, one completed and counted, the other failed
C28_Witness ==
    /\ usage_count = 1
    /\ \E j, k \in DOMAIN tasks :
          /\ Finished(j) /\ tasks[j].status = "completed"
          /\ Finished(k) /\ tasks[k].status = "failed"

\* ------------------------------------------------------------------ default voice
\* C29: whatever calls of create_voice_profile and set_default_voice have run
\* or are running, one after another or at the same time, at most one row of
\* the user has is_default true.
C29_AtMostOneDefault ==
    Cardinality({r \in voice_profiles : r.is_default}) <= 1

\* ------------------------------------------------------------------ blank text
\* the text holds no character other than whitespace (the empty text included)
Blank(t) == \A k \in 1..Len(t) : IsSpace(t[k])

\* C30: for a text that is empty or holds only whitespace both chunkers return
\* the empty list, never a list holding an empty chunk, under the limit of the
\* call as under the limit 0 and the default limit.
C30_BlankTextNoChunks ==
    (Returned /\ Blank(text)) =>
        /\ chunks = <<>>
        /\ \A limit \in {0, DefaultMaxChars} :
              /\ create_chunks(text, limit) = <<>>
              /\ split_into_safe_chunks(text, limit) = <<>>

\* split_into_safe_chunks returned no chunk for a text of several blanks
C30_Witness ==
    /\ cpc = "split_into_safe_chunks"
    /\ Len(text) >= 2
    /\ Blank(text)
    /\ chunks = <<>>

====
